---- MODULE Spec2Model ----
(***************************************************************************)
(* The SaddleUp browser client (class SaddleUpGame, box-trifecta variant). *)
(* One handler runs at a time (single-threaded event loop); every action   *)
(* below is one complete handler: a socket event, an inbound message or a  *)
(* user click.  Handlers are written as operators from a state record to a *)
(* state record so that the calls the code makes (placeBet -> send ->      *)
(* showError, updateRaceState -> updatePhase -> ...) compose as they do in *)
(* the source.                                                             *)
(***************************************************************************)
EXTENDS Integers, Sequences, FiniteSets, TLC

VARIABLES
    location,                \* window.location of the page (protocol, hostname)
    wsUrl,                   \* the URL this.ws was created with
    readyState,              \* this.ws.readyState
    sockets,                 \* sockets created by connect() that have not closed yet
    timers,                  \* pending setTimeout(() => this.connect(), 3000)
    user,                    \* this.user
    currentOdds,             \* this.currentOdds
    usernameInput,           \* this.usernameInput.value
    currentRace,             \* this.currentRace
    selectedBetType,         \* this.selectedBetType
    selectedHorse,           \* this.selectedHorse (0 is null)
    trifectaSelection,       \* this.trifectaSelection
    currentRaceBets,         \* this.currentRaceBets
    racePhase,               \* this.racePhase.className, the phase last shown
    trifectaCount,           \* k of this.trifectaCount.textContent "k/3 horses selected"
    placeTrifectaBtnDisabled,\* this.placeTrifectaBtn.disabled
    selectedButtons,         \* horse buttons carrying the class 'selected'
    timeRemaining,           \* this.timeRemaining.textContent
    userRank,                \* n of this.userRank.textContent "Rank #n" (0 is "Rank #--")
    horseTiers,              \* odds class of each horse element of the track
    activeBets,              \* this.activeBets: "hidden", "visible", or "page" while
                             \* its class list is still the one of the page
    notices,                 \* showError texts raised by the latest handler
    outbox,                  \* frames handed to ws.send by the latest handler
    ev                       \* the latest handler, where a property needs it, with
                             \* its input and what it found

vars == <<location, wsUrl, readyState, sockets, timers, user, currentOdds, usernameInput, currentRace, selectedBetType,
          selectedHorse, trifectaSelection, currentRaceBets, racePhase,
          trifectaCount, placeTrifectaBtnDisabled, selectedButtons,
          timeRemaining, userRank, horseTiers, activeBets,
          notices, outbox, ev>>

\* ---------------------------------------------------------------- bounds
MaxRaceId == 2
MaxBets == 2
\* the largest odds looked at, in tenths
MaxOdds == 100

\* ---------------------------------------------------------------- inputs
Phases == {"betting", "racing", "results"}
BetTypes == {"winner", "place", "trifecta"}
RaceIds == 1 .. MaxRaceId

\* The horses of a race, by id: race 2 has four horses, every other race is a
\* short field (fewer than three horses).
HorsesOf(id) == IF id = 2 THEN <<1, 2, 3, 4>> ELSE <<1, 2>>

\* times are in tenths of a second; a race_state carries the time left of its
\* phase
RaceTime == 300
Times == {-10, 0, 1, 10, 11, RaceTime}

Races ==
    {[id |-> i, phase |-> p, horses |-> HorsesOf(i), time_remaining |-> RaceTime] :
         i \in RaceIds, p \in Phases}

\* bets the server confirms in bet_placed
BetMsgs ==
    { [type |-> "winner", amount |-> 1, selection |-> <<1>>],
      [type |-> "trifecta", amount |-> 1, selection |-> <<1, 2, 3>>] }

Usernames == {"", "ann"}

\* window.location of the page: the protocol it was loaded with and its
\* hostname ('' for a file: page)
Protocols == {"http:", "https:", "file:"}
Hostnames == {"localhost", "127.0.0.1", "saddleup.example", "192.168.0.10", ""}
Locations == {[protocol |-> p, hostname |-> h] : p \in Protocols, h \in Hostnames}
DevLocation == [protocol |-> "http:", hostname |-> "localhost"]

NoRace == [id |-> 0, phase |-> "none", horses |-> <<>>]

\* this.user before any login_success
NoUser == [null |-> TRUE]

\* user payloads: a login_success carries username and balance (showGameScreen
\* reads both), with or without rank; other messages carry any part
Balances == {9, 10}
Ranks == {3}
LoginPayloads ==
    {[username |-> "ann", balance |-> b] : b \in Balances}
        \cup {[username |-> "ann", balance |-> b, rank |-> r] : b \in Balances, r \in Ranks}
UserPayloads ==
    LoginPayloads
        \cup {[balance |-> b] : b \in Balances}
        \cup {[rank |-> r] : r \in Ranks}

\* odds are in tenths of a dollar, by horse id; this.currentOdds starts as {}
NoOdds == <<>>
OddsValues == { [h \in 1 .. 4 |-> [winner |-> 12 + h, place |-> 11]] }

\* snapshots a server sends over a race: of four horses, of two, of one
Snapshots ==
    OddsValues
        \cup { [h \in 1 .. 4 |-> [winner |-> IF h = 1 THEN 40 ELSE IF h = 2 THEN 41
                                              ELSE IF h = 3 THEN 80 ELSE 81,
                                   place |-> 15]],
               [h \in 1 .. 2 |-> [winner |-> 24 + h, place |-> 20]],
               [h \in {3} |-> [winner |-> 90, place |-> 30]] }

\* bets the server confirms, those on a horse of the long field included
ConfirmedBets ==
    BetMsgs \cup { [type |-> "place", amount |-> 1, selection |-> <<3>>] }

\* leaderboard rows; rank 0 stands for a row without rank
Leaders ==
    { <<>>,
      <<[username |-> "bob", rank |-> 0], [username |-> "ann", rank |-> 0]>>,
      <<[username |-> "ann", rank |-> 7], [username |-> "bob", rank |-> 0]>> }

\* ---------------------------------------------------------------- texts
\* a text of the page: a literal, or `${n}s`
Text(literal) == [text |-> literal, n |-> 0]
Seconds(n) == [text |-> "s", n |-> n]

\* Math.ceil of a time given in tenths, in whole seconds
ceil(t) == IF t >= 0 THEN (t + 9) \div 10 ELSE -((-t) \div 10)
max(a, b) == IF a > b THEN a ELSE b

\* ---------------------------------------------------------------- helpers
Range(s) == {s[i] : i \in 1 .. Len(s)}
includes(s, x) == x \in Range(s)
filterOut(s, x) == SelectSeq(s, LAMBDA y : y # x)
some(bets, t) == \E i \in 1 .. Len(bets) : bets[i].type = t
splice1(s, i) == SubSeq(s, 1, i - 1) \o SubSeq(s, i + 1, Len(s))

BettingClosedNotice == "Betting is closed"
SelectHorseNotice == "Please select a horse"
ExactlyThreeNotice == "Please select exactly 3 horses"
CapacityNotice == "You can only select 3 horses for box trifecta"
NotReadyNotice == "Connection not ready. Please wait and try again."
EnterUsernameNotice == "Please enter a username"
OneBetNotice(t) ==
    CASE t = "winner" -> "You can only place one winner bet per race"
      [] t = "place" -> "You can only place one place bet per race"
      [] OTHER -> "You can only place one trifecta bet per race"

\* ---------------------------------------------------------------- state record
Cur ==
    [ location |-> location, wsUrl |-> wsUrl,
      readyState |-> readyState, sockets |-> sockets, timers |-> timers,
      user |-> user, currentOdds |-> currentOdds, usernameInput |-> usernameInput,
      currentRace |-> currentRace, selectedBetType |-> selectedBetType,
      selectedHorse |-> selectedHorse, trifectaSelection |-> trifectaSelection,
      currentRaceBets |-> currentRaceBets, racePhase |-> racePhase,
      trifectaCount |-> trifectaCount,
      placeTrifectaBtnDisabled |-> placeTrifectaBtnDisabled,
      selectedButtons |-> selectedButtons,
      timeRemaining |-> timeRemaining, userRank |-> userRank, horseTiers |-> horseTiers,
      activeBets |-> activeBets,
      notices |-> <<>>, outbox |-> <<>> ]

Commit(s, e) ==
    /\ location' = s.location
    /\ wsUrl' = s.wsUrl
    /\ readyState' = s.readyState
    /\ sockets' = s.sockets
    /\ timers' = s.timers
    /\ user' = s.user
    /\ currentOdds' = s.currentOdds
    /\ usernameInput' = s.usernameInput
    /\ currentRace' = s.currentRace
    /\ selectedBetType' = s.selectedBetType
    /\ selectedHorse' = s.selectedHorse
    /\ trifectaSelection' = s.trifectaSelection
    /\ currentRaceBets' = s.currentRaceBets
    /\ racePhase' = s.racePhase
    /\ trifectaCount' = s.trifectaCount
    /\ placeTrifectaBtnDisabled' = s.placeTrifectaBtnDisabled
    /\ selectedButtons' = s.selectedButtons
    /\ timeRemaining' = s.timeRemaining
    /\ userRank' = s.userRank
    /\ horseTiers' = s.horseTiers
    /\ activeBets' = s.activeBets
    /\ notices' = s.notices
    /\ outbox' = s.outbox
    /\ ev' = e

\* ---------------------------------------------------------------- notices, transport
showError(s, m) == [s EXCEPT !.notices = Append(@, m)]

\* mutant: the frame is handed to the socket whatever its state
send_IgnoresReadyState(s, message) == [s EXCEPT !.outbox = Append(@, message)]

send(s, message) ==
    IF s.readyState = "OPEN"
    THEN [s EXCEPT !.outbox = Append(@, message)]
    ELSE showError(s, NotReadyNotice)

login(s) ==
    IF s.usernameInput = ""
    THEN showError(s, EnterUsernameNotice)
    ELSE send(s, [type |-> "login", username |-> s.usernameInput])

\* ---------------------------------------------------------------- session
\* { ...a, ...b }
spread(a, b) ==
    [f \in (DOMAIN a) \cup (DOMAIN b) |-> IF f \in DOMAIN b THEN b[f] ELSE a[f]]

updateBalance(s, balance) ==
    IF s.user # NoUser
    THEN [s EXCEPT !.user = spread(@, [balance |-> balance])]
    ELSE s

\* rank 0 stands for a rank that is null or undefined
updateUserRank(s, rank) == [s EXCEPT !.userRank = rank]

\* user.rank, 0 when the user has none
rankOf(u) == IF "rank" \in DOMAIN u THEN u.rank ELSE 0

updateUser(s, userData) ==
    IF s.user # NoUser
    THEN LET s1 == [s EXCEPT !.user = spread(@, userData)]
             s2 == updateBalance(s1, s1.user.balance)
         IN  updateUserRank(s2, rankOf(s2.user))
    ELSE s

showGameScreen(s) ==
    LET s1 == updateBalance(s, s.user.balance)
        s2 == updateUserRank(s1, rankOf(s1.user))
    IN  send(send(s2, [type |-> "get_race_state"]), [type |-> "get_leaderboard"])

\* the rank the leaderboard rows give the session's user: the row's rank, or
\* its position when the row has none; the last matching row wins
rankInLeaders(leaders, username) ==
    LET index == CHOOSE i \in 1 .. Len(leaders) :
                     /\ leaders[i].username = username
                     /\ \A j \in i + 1 .. Len(leaders) : leaders[j].username # username
    IN  IF leaders[index].rank # 0 THEN leaders[index].rank ELSE index

\* mutant: without current_user_rank the stored rank is not fallen back on
updateLeaderboard_NoStored(s, leaders, currentUserRank) ==
    IF s.user = NoUser THEN s
    ELSE IF \E i \in 1 .. Len(leaders) : leaders[i].username = s.user.username
    THEN LET userRank_ == rankInLeaders(leaders, s.user.username)
         IN  updateUserRank([s EXCEPT !.user = spread(@, [rank |-> userRank_])], userRank_)
    ELSE IF currentUserRank # 0
    THEN updateUserRank([s EXCEPT !.user = spread(@, [rank |-> currentUserRank])],
                        currentUserRank)
    ELSE updateUserRank(s, 0)

\* currentUserRank 0 stands for a message without current_user_rank
updateLeaderboard(s, leaders, currentUserRank) ==
    IF s.user = NoUser THEN s
    ELSE IF \E i \in 1 .. Len(leaders) : leaders[i].username = s.user.username
    THEN LET userRank_ == rankInLeaders(leaders, s.user.username)
         IN  updateUserRank([s EXCEPT !.user = spread(@, [rank |-> userRank_])], userRank_)
    ELSE LET rankToUse == IF currentUserRank # 0 THEN currentUserRank ELSE rankOf(s.user)
         IN  IF rankToUse # 0
             THEN updateUserRank([s EXCEPT !.user = spread(@, [rank |-> rankToUse])],
                                 rankToUse)
             ELSE updateUserRank(s, 0)

\* ---------------------------------------------------------------- odds
\* mutant: the boundaries belong to the upper tier
getOddsTier_Exclusive(winnerOdds) ==
    IF winnerOdds < 15 THEN "odds-favorite"
    ELSE IF winnerOdds < 25 THEN "odds-strong"
    ELSE IF winnerOdds < 40 THEN "odds-moderate"
    ELSE IF winnerOdds < 80 THEN "odds-long"
    ELSE "odds-longshot"

\* odds in tenths
getOddsTier(winnerOdds) ==
    IF winnerOdds <= 15 THEN "odds-favorite"
    ELSE IF winnerOdds <= 25 THEN "odds-strong"
    ELSE IF winnerOdds <= 40 THEN "odds-moderate"
    ELSE IF winnerOdds <= 80 THEN "odds-long"
    ELSE "odds-longshot"

\* the horse elements of the track take the class of their new winner odds
updateRacingHorseColors(s, odds) ==
    [s EXCEPT !.horseTiers =
        [h \in DOMAIN @ |-> IF h \in DOMAIN odds THEN getOddsTier(odds[h].winner) ELSE @[h]]]

\* mutant: the new odds are merged into the held snapshot
updateOdds_Merges(s, odds, t) ==
    updateRacingHorseColors(
        [s EXCEPT !.timeRemaining = Seconds(ceil(max(0, t))),
                  !.currentOdds = spread(@, odds)],
        odds)

updateOdds(s, odds, t) ==
    updateRacingHorseColors(
        [s EXCEPT !.timeRemaining = Seconds(ceil(max(0, t))),
                  !.currentOdds = odds],
        odds)

getHorseCurrentOdds(s, horseId, betType) ==
    IF horseId \in DOMAIN s.currentOdds /\ betType = "winner"
    THEN s.currentOdds[horseId].winner
    ELSE IF horseId \in DOMAIN s.currentOdds /\ betType = "place"
    THEN s.currentOdds[horseId].place
    ELSE 20

\* ---------------------------------------------------------------- selection display
updateTrifectaDisplay(s) ==
    [s EXCEPT !.trifectaCount = Len(s.trifectaSelection),
              !.placeTrifectaBtnDisabled = (Len(s.trifectaSelection) # 3)]

clearAllSelections(s) == [s EXCEPT !.selectedButtons = {}]

clearSelections(s) ==
    updateTrifectaDisplay([clearAllSelections(s) EXCEPT !.trifectaSelection = <<>>])

clearTrifectaSelection(s) ==
    updateTrifectaDisplay(clearAllSelections([s EXCEPT !.trifectaSelection = <<>>]))

\* ---------------------------------------------------------------- race and phase
\* mutant: the betting countdown is not clamped at zero
updatePhase_NoClamp(s, phase, t) ==
    LET s1 == [s EXCEPT !.racePhase = phase,
                        !.timeRemaining =
                            IF phase = "betting" THEN Seconds(ceil(t))
                            ELSE IF phase = "racing" THEN Text("Racing...")
                            ELSE IF phase = "results"
                            THEN IF t > 0 THEN Seconds(ceil(t))
                                 ELSE Text("Results")
                            ELSE Text("")]
    IN  IF phase = "betting"
        THEN updateTrifectaDisplay(clearAllSelections([s1 EXCEPT !.trifectaSelection = <<>>]))
        ELSE s1

\* mutant: entering betting leaves the highlighted buttons alone
updatePhase_KeepsHighlight(s, phase, t) ==
    LET s1 == [s EXCEPT !.racePhase = phase,
                        !.timeRemaining =
                            IF phase = "betting" THEN Seconds(ceil(max(0, t)))
                            ELSE IF phase = "racing" THEN Text("Racing...")
                            ELSE IF phase = "results"
                            THEN IF t > 0 THEN Seconds(ceil(t))
                                 ELSE Text("Results")
                            ELSE Text("")]
    IN  IF phase = "betting"
        THEN updateTrifectaDisplay([s1 EXCEPT !.trifectaSelection = <<>>])
        ELSE s1

updatePhase(s, phase, t) ==
    LET s1 == [s EXCEPT !.racePhase = phase,
                        !.timeRemaining =
                            IF phase = "betting" THEN Seconds(ceil(max(0, t)))
                            ELSE IF phase = "racing" THEN Text("Racing...")
                            ELSE IF phase = "results"
                            THEN IF t > 0 THEN Seconds(ceil(t))
                                 ELSE Text("Results")
                            ELSE Text("")]
    IN  IF phase = "betting"
        THEN updateTrifectaDisplay(clearAllSelections([s1 EXCEPT !.trifectaSelection = <<>>]))
        ELSE s1

\* The horse elements of the track are rebuilt, each with the class of its
\* winner odds in the held snapshot, 'odds-moderate' without such odds.
createTrack(s, horses) ==
    [s EXCEPT !.horseTiers =
        [h \in Range(horses) |->
            IF h \in DOMAIN s.currentOdds
            THEN getOddsTier(s.currentOdds[h].winner)
            ELSE "odds-moderate"]]

\* The horse buttons are rebuilt (and so lose the class 'selected') only when
\* the horses differ from the ones the buttons were made for.
updateBettingOptions(s, oldHorses, horses) ==
    IF oldHorses # horses THEN [s EXCEPT !.selectedButtons = {}] ELSE s

\* The active bets panel is shown for a racing race with bets in the ledger
\* and hidden for every other race_state.
showActiveBets(s, phase) ==
    [s EXCEPT !.activeBets =
        IF phase = "racing" /\ s.currentRaceBets # <<>> THEN "visible" ELSE "hidden"]

\* mutant: the new race is adopted without the resets
updateRaceState_KeepsLedger(s, race) ==
    LET s2 == [s EXCEPT !.currentRace = race]
        s3 == showActiveBets(updatePhase(s2, race.phase, race.time_remaining), race.phase)
    IN  updateBettingOptions(createTrack(s3, race.horses), s.currentRace.horses, race.horses)

\* mutant: a new race starts without odds
updateRaceState_DropsOdds(s, race) ==
    LET s1 == IF s.currentRace = NoRace \/ race.id # s.currentRace.id
              THEN updateTrifectaDisplay(clearAllSelections(
                       [s EXCEPT !.currentRaceBets = <<>>, !.trifectaSelection = <<>>,
                                 !.currentOdds = NoOdds]))
              ELSE s
        s2 == [s1 EXCEPT !.currentRace = race]
        s3 == showActiveBets(updatePhase(s2, race.phase, race.time_remaining), race.phase)
    IN  updateBettingOptions(createTrack(s3, race.horses), s.currentRace.horses, race.horses)

updateRaceState(s, race) ==
    LET s1 == IF s.currentRace = NoRace \/ race.id # s.currentRace.id
              THEN updateTrifectaDisplay(clearAllSelections(
                       [s EXCEPT !.currentRaceBets = <<>>, !.trifectaSelection = <<>>]))
              ELSE s
        s2 == [s1 EXCEPT !.currentRace = race]
        s3 == showActiveBets(updatePhase(s2, race.phase, race.time_remaining), race.phase)
    IN  updateBettingOptions(createTrack(s3, race.horses), s.currentRace.horses, race.horses)

\* ---------------------------------------------------------------- bet ledger
addBetToCurrentRace(s, bet) ==
    LET horseFound == includes(s.currentRace.horses, bet.selection[1])
        \* displayText: the dash-joined selection, or the name of the horse (its
        \* id stands for it); <<>> when the horse is not in the held race
        \* oddsAtBetting: 0 stands for 'Variable', -1 for a field never set
        betInfo == [ type |-> bet.type, amount |-> bet.amount, selection |-> bet.selection,
                     displayText |-> IF bet.type = "trifecta" THEN bet.selection
                                     ELSE IF horseFound THEN <<bet.selection[1]>>
                                     ELSE <<>>,
                     oddsAtBetting |-> IF bet.type = "trifecta" THEN 0
                                       ELSE IF horseFound
                                       THEN getHorseCurrentOdds(s, bet.selection[1], bet.type)
                                       ELSE -1 ]
    IN  [s EXCEPT !.currentRaceBets = Append(@, betInfo)]

\* The items updateActiveBetsDisplay renders into the bets list, one for each
\* ledger bet, with the potential payout it computes: 'TBD', or `$${x}` with
\* x in tenths.
updateActiveBetsDisplay(s) ==
    [ i \in 1 .. Len(s.currentRaceBets) |->
        LET bet == s.currentRaceBets[i]
            horseFound == includes(s.currentRace.horses, bet.selection[1])
            currentOdds_ == getHorseCurrentOdds(s, bet.selection[1], bet.type)
        IN  [ type |-> bet.type,
              potentialPayout |->
                  IF s.currentRace # NoRace /\ bet.type # "trifecta"
                     /\ horseFound /\ currentOdds_ # 0
                  THEN [text |-> "$", n |-> bet.amount * currentOdds_]
                  ELSE Text("TBD") ] ]

\* ---------------------------------------------------------------- submitting bets
placeTrifectaBet(s) ==
    IF Len(s.trifectaSelection) # 3
    THEN showError(s, ExactlyThreeNotice)
    ELSE IF some(s.currentRaceBets, "trifecta")
    THEN showError(s, OneBetNotice("trifecta"))
    ELSE clearTrifectaSelection(
             send(s, [ type |-> "place_bet", bet_type |-> "trifecta", amount |-> 1,
                       selection |-> s.trifectaSelection ]))

\* mutant: the stake is taken off the balance when the frame is sent
placeBet_OptimisticDebit(s) ==
    IF s.currentRace = NoRace \/ s.currentRace.phase # "betting"
    THEN showError(s, BettingClosedNotice)
    ELSE IF s.selectedBetType = "trifecta"
    THEN placeTrifectaBet(s)
    ELSE IF s.selectedHorse = 0
    THEN showError(s, SelectHorseNotice)
    ELSE IF some(s.currentRaceBets, s.selectedBetType)
    THEN showError(s, OneBetNotice(s.selectedBetType))
    ELSE LET s1 == IF s.user # NoUser THEN updateBalance(s, s.user.balance - 1) ELSE s
         IN  clearSelections(
                 [ send(s1, [ type |-> "place_bet", bet_type |-> s.selectedBetType,
                              amount |-> 1, selection |-> <<s.selectedHorse>> ])
                   EXCEPT !.selectedHorse = 0 ])

\* mutant: the bet is entered in the ledger when its frame is sent
placeBet_OptimisticLedger(s) ==
    IF s.currentRace = NoRace \/ s.currentRace.phase # "betting"
    THEN showError(s, BettingClosedNotice)
    ELSE IF s.selectedBetType = "trifecta"
    THEN placeTrifectaBet(s)
    ELSE IF s.selectedHorse = 0
    THEN showError(s, SelectHorseNotice)
    ELSE IF some(s.currentRaceBets, s.selectedBetType)
    THEN showError(s, OneBetNotice(s.selectedBetType))
    ELSE clearSelections(
             addBetToCurrentRace(
                 [ send(s, [ type |-> "place_bet", bet_type |-> s.selectedBetType,
                             amount |-> 1, selection |-> <<s.selectedHorse>> ])
                   EXCEPT !.selectedHorse = 0 ],
                 [ type |-> s.selectedBetType, amount |-> 1,
                   selection |-> <<s.selectedHorse>> ]))

\* mutant: the one-bet-per-type check is missing
placeBet_NoDuplicateCheck(s) ==
    IF s.currentRace = NoRace \/ s.currentRace.phase # "betting"
    THEN showError(s, BettingClosedNotice)
    ELSE IF s.selectedBetType = "trifecta"
    THEN placeTrifectaBet(s)
    ELSE IF s.selectedHorse = 0
    THEN showError(s, SelectHorseNotice)
    ELSE clearSelections(
             [ send(s, [ type |-> "place_bet", bet_type |-> s.selectedBetType, amount |-> 1,
                         selection |-> <<s.selectedHorse>> ])
               EXCEPT !.selectedHorse = 0 ])

placeBet(s) ==
    IF s.currentRace = NoRace \/ s.currentRace.phase # "betting"
    THEN showError(s, BettingClosedNotice)
    ELSE IF s.selectedBetType = "trifecta"
    THEN placeTrifectaBet(s)
    ELSE IF s.selectedHorse = 0
    THEN showError(s, SelectHorseNotice)
    ELSE IF some(s.currentRaceBets, s.selectedBetType)
    THEN showError(s, OneBetNotice(s.selectedBetType))
    ELSE clearSelections(
             [ send(s, [ type |-> "place_bet", bet_type |-> s.selectedBetType, amount |-> 1,
                         selection |-> <<s.selectedHorse>> ])
               EXCEPT !.selectedHorse = 0 ])

\* ---------------------------------------------------------------- selection engine
\* mutant: a click on the active bet type changes nothing
selectBetType_SameTypeKeeps(s, type) ==
    IF type = s.selectedBetType THEN s
    ELSE clearSelections([s EXCEPT !.selectedBetType = type, !.selectedHorse = 0,
                                   !.trifectaSelection = <<>>])

\* mutant: the switch leaves the trifecta selection in place
selectBetType_KeepsTrifecta(s, type) ==
    clearAllSelections([s EXCEPT !.selectedBetType = type, !.selectedHorse = 0])

selectBetType(s, type) ==
    clearSelections([s EXCEPT !.selectedBetType = type, !.selectedHorse = 0,
                              !.trifectaSelection = <<>>])

\* mutant: a horse staged earlier is kept
handleSingleBetSelection_KeepsPrior(s, horseId) ==
    placeBet([clearAllSelections(
                  [s EXCEPT !.selectedHorse = IF @ = 0 THEN horseId ELSE @])
              EXCEPT !.selectedButtons = {horseId}])

handleSingleBetSelection(s, horseId) ==
    placeBet([clearAllSelections([s EXCEPT !.selectedHorse = horseId])
              EXCEPT !.selectedButtons = {horseId}])

\* mutant: a horse already selected is added again
selectTrifectaHorse_NoIncludes(s, horseId) ==
    IF s.selectedBetType # "trifecta" THEN s
    ELSE IF Len(s.trifectaSelection) < 3
    THEN updateTrifectaDisplay(
             [s EXCEPT !.trifectaSelection = Append(@, horseId),
                       !.selectedButtons = @ \cup {horseId}])
    ELSE showError(s, CapacityNotice)

\* mutant: no capacity check
selectTrifectaHorse_NoCapacity(s, horseId) ==
    IF s.selectedBetType # "trifecta" THEN s
    ELSE IF includes(s.trifectaSelection, horseId)
    THEN updateTrifectaDisplay(
             [s EXCEPT !.trifectaSelection = filterOut(@, horseId),
                       !.selectedButtons = @ \ {horseId}])
    ELSE updateTrifectaDisplay(
             [s EXCEPT !.trifectaSelection = Append(@, horseId),
                       !.selectedButtons = @ \cup {horseId}])

\* mutant: at capacity the oldest member is dropped and replaced
selectTrifectaHorse_DropsOldest(s, horseId) ==
    IF s.selectedBetType # "trifecta" THEN s
    ELSE IF includes(s.trifectaSelection, horseId)
    THEN updateTrifectaDisplay(
             [s EXCEPT !.trifectaSelection = filterOut(@, horseId),
                       !.selectedButtons = @ \ {horseId}])
    ELSE IF Len(s.trifectaSelection) < 3
    THEN updateTrifectaDisplay(
             [s EXCEPT !.trifectaSelection = Append(@, horseId),
                       !.selectedButtons = @ \cup {horseId}])
    ELSE showError([s EXCEPT !.trifectaSelection = Append(Tail(@), horseId)], CapacityNotice)

\* mutant: deselecting removes the last member instead of the clicked horse
selectTrifectaHorse_RemovesLast(s, horseId) ==
    IF s.selectedBetType # "trifecta" THEN s
    ELSE IF includes(s.trifectaSelection, horseId)
    THEN updateTrifectaDisplay(
             [s EXCEPT !.trifectaSelection = SubSeq(@, 1, Len(@) - 1),
                       !.selectedButtons = @ \ {horseId}])
    ELSE IF Len(s.trifectaSelection) < 3
    THEN updateTrifectaDisplay(
             [s EXCEPT !.trifectaSelection = Append(@, horseId),
                       !.selectedButtons = @ \cup {horseId}])
    ELSE showError(s, CapacityNotice)

\* mutant: a removal leaves the count text and the button as they were
selectTrifectaHorse_StaleOnRemove(s, horseId) ==
    IF s.selectedBetType # "trifecta" THEN s
    ELSE IF includes(s.trifectaSelection, horseId)
    THEN [s EXCEPT !.trifectaSelection = filterOut(@, horseId),
                   !.selectedButtons = @ \ {horseId}]
    ELSE IF Len(s.trifectaSelection) < 3
    THEN updateTrifectaDisplay(
             [s EXCEPT !.trifectaSelection = Append(@, horseId),
                       !.selectedButtons = @ \cup {horseId}])
    ELSE showError(s, CapacityNotice)

selectTrifectaHorse(s, horseId) ==
    IF s.selectedBetType # "trifecta" THEN s
    ELSE IF includes(s.trifectaSelection, horseId)
    THEN updateTrifectaDisplay(
             [s EXCEPT !.trifectaSelection = filterOut(@, horseId),
                       !.selectedButtons = @ \ {horseId}])
    ELSE IF Len(s.trifectaSelection) < 3
    THEN updateTrifectaDisplay(
             [s EXCEPT !.trifectaSelection = Append(@, horseId),
                       !.selectedButtons = @ \cup {horseId}])
    ELSE showError(s, CapacityNotice)

selectHorse(s, horseId) ==
    IF s.selectedBetType = "trifecta"
    THEN selectTrifectaHorse(s, horseId)
    ELSE handleSingleBetSelection(s, horseId)

\* mutant: the picked horse is not removed from the candidates
RECURSIVE mysteryDraws_NoSplice(_, _, _)
mysteryDraws_NoSplice(horsesCopy, selectedHorses, i) ==
    IF i < 3 /\ Len(horsesCopy) > 0
    THEN UNION { mysteryDraws_NoSplice(horsesCopy,
                                       Append(selectedHorses, horsesCopy[randomIndex]), i + 1)
                 : randomIndex \in 1 .. Len(horsesCopy) }
    ELSE {selectedHorses}

\* Every result the draw loop can produce: up to three picks, each a random
\* index into the remaining candidates, spliced out of them.
RECURSIVE mysteryDraws(_, _, _)
mysteryDraws(horsesCopy, selectedHorses, i) ==
    IF i < 3 /\ Len(horsesCopy) > 0
    THEN UNION { mysteryDraws(splice1(horsesCopy, randomIndex),
                              Append(selectedHorses, horsesCopy[randomIndex]), i + 1)
                 : randomIndex \in 1 .. Len(horsesCopy) }
    ELSE {selectedHorses}

\* selectMysteryTrifecta with the draws' outcome given
selectMysteryTrifecta(s, selectedHorses) ==
    IF s.selectedBetType # "trifecta" \/ s.currentRace = NoRace THEN s
    ELSE LET s1 == clearTrifectaSelection(s)
         IN  updateTrifectaDisplay(
                 [s1 EXCEPT !.trifectaSelection = @ \o selectedHorses,
                            !.selectedButtons = @ \cup Range(selectedHorses)])

\* ---------------------------------------------------------------- dispatcher
\* mutant: a message of no known kind drops the selection
handleMessage_OtherClears(s, message) ==
    LET s0 == IF "user" \in DOMAIN message THEN updateUser(s, message.user) ELSE s
    IN  CASE message.type = "login_success" ->
                 showGameScreen([s0 EXCEPT !.user = message.user])
          [] message.type = "race_state" -> updateRaceState(s0, message.race)
          [] message.type = "odds_update" ->
                 updateOdds(s0, message.odds, message.time_remaining)
          [] message.type = "phase_update" ->
                 updatePhase(s0, message.phase, message.time_remaining)
          [] message.type = "bet_placed" ->
                 addBetToCurrentRace(updateBalance(s0, message.new_balance), message.bet)
          [] message.type = "leaderboard" ->
                 updateLeaderboard(s0, message.leaders, message.current_user_rank)
          [] message.type = "error" -> showError(s0, message.message)
          [] OTHER -> clearTrifectaSelection(s0)

handleMessage(s, message) ==
    LET s0 == IF "user" \in DOMAIN message THEN updateUser(s, message.user) ELSE s
    IN  CASE message.type = "login_success" ->
                 showGameScreen([s0 EXCEPT !.user = message.user])
          [] message.type = "race_state" -> updateRaceState(s0, message.race)
          [] message.type = "odds_update" ->
                 updateOdds(s0, message.odds, message.time_remaining)
          [] message.type = "phase_update" ->
                 updatePhase(s0, message.phase, message.time_remaining)
          [] message.type = "bet_placed" ->
                 addBetToCurrentRace(updateBalance(s0, message.new_balance), message.bet)
          [] message.type = "leaderboard" ->
                 updateLeaderboard(s0, message.leaders, message.current_user_rank)
          [] message.type = "error" -> showError(s0, message.message)
          [] OTHER -> s0

\* ---------------------------------------------------------------- socket handlers
\* A frame is the text of a message (JSON.stringify) or a text JSON.parse
\* rejects.
stringify(message) == [text |-> "json", value |-> message]
MalformedFrames == {[text |-> "invalid json"], [text |-> ""]}

\* mutant: a frame that does not parse ends the connection's state
onmessage_ResetsOnError(s, data) ==
    IF data.text = "json" THEN handleMessage(s, data.value)
    ELSE [s EXCEPT !.currentRaceBets = <<>>, !.trifectaSelection = <<>>]

\* JSON.parse throws out of the handler on a malformed frame: handleMessage
\* is not reached.
onmessage(s, data) ==
    IF data.text = "json" THEN handleMessage(s, data.value) ELSE s

\* a URL `${scheme}//${host}:${port}${path}`; port "" stands for no ':port'
Url(scheme, host, port, path) ==
    [scheme |-> scheme, host |-> host, port |-> port, path |-> path]

\* mutant: the development URL follows the page protocol
connect_DevFollowsPage(s) ==
    LET wsProtocol == IF s.location.protocol = "https:" THEN "wss:" ELSE "ws:"
        wsHost == s.location.hostname
        wsUrl_ == IF wsHost = "localhost" \/ wsHost = "127.0.0.1"
                  THEN Url(wsProtocol, wsHost, "8765", "")
                  ELSE Url(wsProtocol, wsHost, "", "/ws")
    IN  [s EXCEPT !.wsUrl = wsUrl_, !.readyState = "CONNECTING", !.sockets = @ + 1]

\* mutant: a reconnect starts over with an empty ledger and no odds
connect_StartsOver(s) ==
    LET wsProtocol == IF s.location.protocol = "https:" THEN "wss:" ELSE "ws:"
        wsHost == s.location.hostname
        wsUrl_ == IF wsHost = "localhost" \/ wsHost = "127.0.0.1"
                  THEN Url("ws:", wsHost, "8765", "")
                  ELSE Url(wsProtocol, wsHost, "", "/ws")
    IN  [s EXCEPT !.wsUrl = wsUrl_, !.readyState = "CONNECTING", !.sockets = @ + 1,
                  !.currentRaceBets = <<>>, !.currentOdds = NoOdds]

connect(s) ==
    LET wsProtocol == IF s.location.protocol = "https:" THEN "wss:" ELSE "ws:"
        wsHost == s.location.hostname
        wsUrl_ == IF wsHost = "localhost" \/ wsHost = "127.0.0.1"
                  THEN Url("ws:", wsHost, "8765", "")
                  ELSE Url(wsProtocol, wsHost, "", "/ws")
    IN  [s EXCEPT !.wsUrl = wsUrl_, !.readyState = "CONNECTING", !.sockets = @ + 1]

onopen(s) == login(s)

\* mutant: the close handler schedules two reconnects
onclose_TwoTimers(s) == [s EXCEPT !.timers = @ + 2]

\* mutant: the close handler schedules no reconnect
onclose_NoTimer(s) == s

onclose(s) == [s EXCEPT !.timers = @ + 1]

\* ---------------------------------------------------------------- events
Event(op, h) ==
    [ op |-> op, h |-> h, newRace |-> FALSE, hadBets |-> FALSE, hadSel |-> FALSE,
      sent |-> FALSE ]

\* a handler the properties need not tell apart from the state it leaves
Other == Event("other", 0)

RaceEvent(race) ==
    [ op |-> "race_state", h |-> 0,
      newRace |-> (currentRace = NoRace \/ race.id # currentRace.id),
      hadBets |-> (currentRaceBets # <<>>),
      hadSel |-> (trifectaSelection # <<>>),
      \* the handler before this one sent a place_bet frame
      sent |-> (\E i \in 1 .. Len(outbox) : outbox[i].type = "place_bet") ]

\* a bet_placed; newRace: the handler before it was a race_state that adopted
\* a new race id, sent: and the handler before that one sent a place_bet frame
BetEvent ==
    [ op |-> "bet_placed", h |-> 0,
      newRace |-> (ev.op = "race_state" /\ ev.newRace),
      hadBets |-> FALSE, hadSel |-> FALSE,
      sent |-> (ev.op = "race_state" /\ ev.newRace /\ ev.sent) ]

\* The state the constructor leaves on a page at the given location: the
\* elements as the page has them, and the first connect() made.
Constructed(loc) ==
    [ location |-> loc, wsUrl |-> Url("", "", "", ""),
      readyState |-> "CLOSED", sockets |-> 0, timers |-> 0,
      user |-> NoUser, currentOdds |-> NoOdds, usernameInput |-> "",
      currentRace |-> NoRace, selectedBetType |-> "winner", selectedHorse |-> 0,
      trifectaSelection |-> <<>>, currentRaceBets |-> <<>>, racePhase |-> "none",
      trifectaCount |-> 0, placeTrifectaBtnDisabled |-> TRUE, selectedButtons |-> {},
      timeRemaining |-> Text(""), userRank |-> 0, horseTiers |-> <<>>,
      activeBets |-> "page",
      notices |-> <<>>, outbox |-> <<>> ]

PageLoad(loc) ==
    LET s == connect(Constructed(loc))
    IN  /\ location = s.location
        /\ wsUrl = s.wsUrl
        /\ readyState = s.readyState
        /\ sockets = s.sockets
        /\ timers = s.timers
        /\ user = s.user
        /\ currentOdds = s.currentOdds
        /\ usernameInput = s.usernameInput
        /\ currentRace = s.currentRace
        /\ selectedBetType = s.selectedBetType
        /\ selectedHorse = s.selectedHorse
        /\ trifectaSelection = s.trifectaSelection
        /\ currentRaceBets = s.currentRaceBets
        /\ racePhase = s.racePhase
        /\ trifectaCount = s.trifectaCount
        /\ placeTrifectaBtnDisabled = s.placeTrifectaBtnDisabled
        /\ selectedButtons = s.selectedButtons
        /\ timeRemaining = s.timeRemaining
        /\ userRank = s.userRank
        /\ horseTiers = s.horseTiers
        /\ activeBets = s.activeBets
        /\ notices = s.notices
        /\ outbox = s.outbox
        /\ ev = Event("init", 0)

\* the page served by the development server
\* a phase_update with time t; hadSel: horses were selected before it
PhaseEvent(t) ==
    [ op |-> "phase_update", h |-> t, newRace |-> FALSE, hadBets |-> FALSE,
      hadSel |-> (trifectaSelection # <<>> \/ selectedButtons # {}), sent |-> FALSE ]

\* a click on a bet type button; hadSel: a selection was staged before it
BetTypeEvent ==
    [ op |-> "selectBetType", h |-> 0, newRace |-> FALSE, hadBets |-> FALSE,
      hadSel |-> (trifectaSelection # <<>> \/ selectedHorse # 0), sent |-> FALSE ]

Init == PageLoad(DevLocation)

\* ---- socket events
WsOpen ==
    /\ readyState = "CONNECTING"
    /\ Commit(onopen([Cur EXCEPT !.readyState = "OPEN"]), Other)

WsClose ==
    /\ readyState \in {"CONNECTING", "OPEN"}
    /\ Commit(onclose([Cur EXCEPT !.readyState = "CLOSED", !.sockets = @ - 1]), Other)

ReconnectTimer ==
    /\ timers > 0
    /\ Commit(connect([Cur EXCEPT !.timers = @ - 1]), Other)

\* ---- inbound messages (delivered on the open socket)
RecvRaceState ==
    \E race \in Races :
        /\ readyState = "OPEN"
        /\ Commit(onmessage(Cur, stringify([type |-> "race_state", race |-> race])), RaceEvent(race))

RecvPhaseUpdate ==
    \E phase \in Phases :
        /\ readyState = "OPEN"
        /\ Commit(onmessage(Cur, stringify([ type |-> "phase_update", phase |-> phase,
                                             time_remaining |-> RaceTime ])),
                  Other)

RecvBetPlaced ==
    \E bet \in BetMsgs, balance \in Balances :
        /\ readyState = "OPEN"
        /\ Len(currentRaceBets) < MaxBets
        /\ Commit(onmessage(Cur, stringify([ type |-> "bet_placed", new_balance |-> balance,
                                             bet |-> bet ])),
                  BetEvent)

RecvError ==
    /\ readyState = "OPEN"
    /\ Commit(onmessage(Cur, stringify([type |-> "error", message |-> "Insufficient balance"])),
              Other)

RecvOther ==
    \E type \in {"connection_established", "race_update", "race_results", "unknown"} :
        /\ readyState = "OPEN"
        /\ Commit(onmessage(Cur, stringify([type |-> type])), Other)

\* ---- inbound messages of the session
RecvLoginSuccess ==
    \E userData \in LoginPayloads :
        /\ readyState = "OPEN"
        /\ Commit(onmessage(Cur, stringify([type |-> "login_success", user |-> userData])),
                  Event("login_success", 0))

\* a message of no known kind, with or without a user field
RecvUnknown ==
    \E message \in {[type |-> "unknown"]}
                       \cup {[type |-> "unknown", user |-> userData] :
                                 userData \in UserPayloads} :
        /\ readyState = "OPEN"
        /\ Commit(onmessage(Cur, stringify(message)), Event("unknown", 0))

\* a message of a known kind that carries a user field
RecvUser ==
    \E userData \in UserPayloads :
        /\ readyState = "OPEN"
        /\ Commit(onmessage(Cur, stringify([type |-> "race_results", user |-> userData])),
                  Event("race_results", 0))

RecvOddsUpdate ==
    \E odds \in OddsValues :
        /\ readyState = "OPEN"
        /\ Commit(onmessage(Cur, stringify([ type |-> "odds_update", odds |-> odds,
                                             time_remaining |-> RaceTime ])),
                  Event("odds_update", 0))

RecvLeaderboard ==
    \E leaders \in Leaders, currentUserRank \in {0} \cup Ranks :
        /\ readyState = "OPEN"
        /\ Commit(onmessage(Cur, stringify([ type |-> "leaderboard", leaders |-> leaders,
                                             current_user_rank |-> currentUserRank ])),
                  Event("leaderboard", 0))

\* a race_state that opens betting on a short field
RecvRaceOpens ==
    \E race \in {r \in Races : r.phase = "betting" /\ Len(r.horses) < 3} :
        /\ readyState = "OPEN"
        /\ Commit(onmessage(Cur, stringify([type |-> "race_state", race |-> race])),
                  RaceEvent(race))

\* ---- inbound messages of the odds and the clock
RecvOddsSnapshot ==
    \E odds \in Snapshots :
        /\ readyState = "OPEN"
        /\ Commit(onmessage(Cur, stringify([ type |-> "odds_update", odds |-> odds,
                                             time_remaining |-> RaceTime ])),
                  Event("odds_update", 0))

RecvBetConfirmed ==
    \E bet \in ConfirmedBets :
        /\ readyState = "OPEN"
        /\ Len(currentRaceBets) < MaxBets
        /\ Commit(onmessage(Cur, stringify([ type |-> "bet_placed", new_balance |-> 9,
                                             bet |-> bet ])),
                  BetEvent)

RecvPhaseTick ==
    \E phase \in Phases, t \in Times :
        /\ readyState = "OPEN"
        /\ Commit(onmessage(Cur, stringify([ type |-> "phase_update", phase |-> phase,
                                             time_remaining |-> t ])),
                  PhaseEvent(t))

RecvMalformed ==
    \E data \in MalformedFrames :
        /\ readyState = "OPEN"
        /\ Commit(onmessage(Cur, data), Event("malformed", 0))

\* ---- user input
TypeUsername ==
    \E u \in Usernames :
        /\ u # usernameInput
        /\ Commit([Cur EXCEPT !.usernameInput = u], Other)

SubmitLogin == Commit(login(Cur), Other)

ClickBetType ==
    \E type \in BetTypes : Commit(selectBetType(Cur, type), Other)

\* the same click, with what it found kept for the properties
ClickBetTypeButton ==
    \E type \in BetTypes : Commit(selectBetType(Cur, type), BetTypeEvent)

ClickHorse ==
    \E horseId \in Range(currentRace.horses) :
        Commit(selectHorse(Cur, horseId), Event("selectHorse", horseId))

\* a disabled button dispatches no click
ClickPlaceTrifecta ==
    /\ ~placeTrifectaBtnDisabled
    /\ Commit(placeTrifectaBet(Cur), Event("placeTrifectaBet", 0))

\* Math.random is drawn from only past the early return.
ClickMysteryTrifecta ==
    \E selectedHorses \in
            IF selectedBetType # "trifecta" \/ currentRace = NoRace
            THEN {<<>>}
            ELSE mysteryDraws(currentRace.horses, <<>>, 0) :
        Commit(selectMysteryTrifecta(Cur, selectedHorses), Event("mystery", 0))

ClickClearTrifecta == Commit(clearTrifectaSelection(Cur), Other)

Next ==
    \/ WsOpen
    \/ WsClose
    \/ ReconnectTimer
    \/ RecvRaceState
    \/ RecvPhaseUpdate
    \/ RecvBetPlaced
    \/ RecvError
    \/ RecvOther
    \/ TypeUsername
    \/ SubmitLogin
    \/ ClickBetType
    \/ ClickHorse
    \/ ClickPlaceTrifecta
    \/ ClickMysteryTrifecta
    \/ ClickClearTrifecta

Spec == Init /\ [][Next]_vars

\* One connection, from its open on: every inbound frame, malformed ones
\* included, and every click.
MsgNext ==
    \/ WsOpen
    \/ RecvRaceState
    \/ RecvPhaseUpdate
    \/ RecvBetPlaced
    \/ RecvError
    \/ RecvOther
    \/ RecvMalformed
    \/ ClickBetType
    \/ ClickHorse
    \/ ClickPlaceTrifecta
    \/ ClickMysteryTrifecta
    \/ ClickClearTrifecta

MsgSpec == Init /\ [][MsgNext]_vars

\* One connection with a session: login, the messages that touch the user,
\* the odds and the ledger, and the clicks that select horses and submit
\* single bets, on races of a short field.
SessionNext ==
    \/ WsOpen
    \/ RecvLoginSuccess
    \/ RecvUnknown
    \/ RecvUser
    \/ RecvOddsUpdate
    \/ RecvLeaderboard
    \/ RecvRaceOpens
    \/ RecvBetPlaced
    \/ ClickBetType
    \/ ClickHorse

SessionSpec == Init /\ [][SessionNext]_vars

\* The connection life cycle with the handlers that run beside it and leave
\* the race alone; the reconnect timer, once set, fires (setTimeout).
LiveNext ==
    \/ WsOpen
    \/ WsClose
    \/ ReconnectTimer
    \/ RecvPhaseUpdate
    \/ RecvError
    \/ RecvOther
    \/ RecvMalformed
    \/ TypeUsername
    \/ SubmitLogin
    \/ ClickBetType

LiveSpec == Init /\ [][LiveNext]_vars /\ WF_vars(ReconnectTimer)

\* The odds of a race: race states, odds snapshots and confirmed bets on
\* one connection.
OddsNext ==
    \/ WsOpen
    \/ RecvRaceState
    \/ RecvOddsSnapshot
    \/ RecvBetConfirmed

OddsSpec == Init /\ [][OddsNext]_vars

\* The phases of a race with their clock, and the selections made meanwhile.
PhaseNext ==
    \/ WsOpen
    \/ RecvRaceState
    \/ RecvPhaseTick
    \/ ClickBetTypeButton
    \/ ClickHorse

PhaseSpec == Init /\ [][PhaseNext]_vars

\* The connection life cycle of a page loaded from any location.
UrlInit == \E loc \in Locations : PageLoad(loc)

UrlSpec == UrlInit /\ [][LiveNext]_vars

\* A session that loses and regains its connection while a race is open
\* for betting, with odds, confirmed bets and selections in hand.
ReconnectNext ==
    \/ WsOpen
    \/ WsClose
    \/ ReconnectTimer
    \/ RecvRaceOpens
    \/ RecvOddsSnapshot
    \/ RecvBetConfirmed
    \/ ClickBetType
    \/ ClickHorse

ReconnectSpec == Init /\ [][ReconnectNext]_vars

\* ================================================================ properties
Distinct(s) == \A i, j \in 1 .. Len(s) : i # j => s[i] # s[j]
PlaceBetFrames == {outbox[i] : i \in {k \in 1 .. Len(outbox) : outbox[k].type = "place_bet"}}
BettingClosed == currentRace = NoRace \/ currentRace.phase # "betting"
Min(a, b) == IF a < b THEN a ELSE b

\* C1: a race_state whose race id differs from the held race's id (or that
\* arrives while no race is held) leaves the bet ledger and the trifecta
\* selection empty, whatever they held, so the new race id is never paired
\* with the old ledger.
C1_NewRaceResets ==
    (ev.op = "race_state" /\ ev.newRace) =>
        /\ currentRaceBets = <<>>
        /\ trifectaSelection = <<>>

C1_Witness ==
    /\ ev.op = "race_state" /\ ev.newRace /\ ev.hadBets /\ ev.hadSel
    /\ currentRace.id = 1 /\ currentRace.phase = "racing"

\* C2: the ledger holds at most one bet of each type in every reachable state.
C2_OneBetPerType ==
    \A t \in BetTypes :
        Cardinality({i \in 1 .. Len(currentRaceBets) : currentRaceBets[i].type = t}) <= 1

\* a submission attempt of bet type t is the step taken: a horse click with a
\* single bet type selected (placeBet), or the place-trifecta button
Attempt(t) ==
    \/ t # "trifecta" /\ selectedBetType = t /\ ev'.op = "selectHorse"
    \/ t = "trifecta" /\ ev'.op = "placeTrifectaBet"

\* C3 as stated: with a bet of the type already in the ledger, a submission
\* attempt raises the one-bet-per-race notice, sends nothing and leaves the
\* ledger unchanged.
C3_Original ==
    [][ \A t \in BetTypes :
            (some(currentRaceBets, t) /\ Attempt(t)) =>
                /\ notices' = <<OneBetNotice(t)>>
                /\ outbox' = <<>>
                /\ currentRaceBets' = currentRaceBets ]_vars

\* C3 (amended): with a bet of the type already in the ledger, a submission
\* attempt sends nothing and leaves the ledger unchanged; the notice raised
\* is the one-bet-per-race notice, unless an earlier check of the handler
\* rejects the attempt first: placeBet raises 'Betting is closed' when no
\* race is held or the held race's phase is not betting, placeTrifectaBet
\* raises 'Please select exactly 3 horses' when the selection is not 3.
C3_NoDuplicateTypeSent ==
    [][ \A t \in BetTypes :
            (some(currentRaceBets, t) /\ Attempt(t)) =>
                /\ notices' = << IF t # "trifecta" /\ BettingClosed
                                 THEN BettingClosedNotice
                                 ELSE IF t = "trifecta" /\ Len(trifectaSelection) # 3
                                 THEN ExactlyThreeNotice
                                 ELSE OneBetNotice(t) >>
                /\ outbox' = <<>>
                /\ currentRaceBets' = currentRaceBets ]_vars

C3_Witness ==
    /\ ev.op = "placeTrifectaBet"
    /\ some(currentRaceBets, "trifecta")
    /\ notices = <<OneBetNotice("trifecta")>>
    /\ outbox = <<>>

\* C4: a submission attempt of any bet type made while no race is held or the
\* held race's phase is not betting sends no frame and raises 'Betting is
\* closed'.
C4_ClosedRejectsAll ==
    ( /\ \/ ev.op = "selectHorse" /\ selectedBetType # "trifecta"
         \/ ev.op = "placeTrifectaBet"
      /\ BettingClosed ) =>
        /\ outbox = <<>>
        /\ notices = <<BettingClosedNotice>>

\* C5: the phase that decides whether a bet may be submitted is the phase of
\* the latest phase_update or race_state; after a phase_update to racing or
\* results a horse click sends no place_bet frame.
C5_PhaseFollowsServer ==
    /\ currentRace # NoRace => currentRace.phase = racePhase
    /\ (ev.op = "selectHorse" /\ racePhase \in {"racing", "results"}) => PlaceBetFrames = {}

\* C6: every place_bet frame sent has amount 1.0, a bet type among winner,
\* place, trifecta, and a selection of one horse id (winner, place) or three
\* pairwise distinct horse ids (trifecta).
C6_FramesWellFormed ==
    \A f \in PlaceBetFrames :
        /\ f.amount = 1
        /\ f.bet_type \in BetTypes
        /\ f.selection \in Seq(Nat \ {0})
        /\ IF f.bet_type = "trifecta"
           THEN Len(f.selection) = 3 /\ Distinct(f.selection)
           ELSE Len(f.selection) = 1

C6_Witness ==
    \E f \in PlaceBetFrames : f.bet_type = "trifecta" /\ Range(f.selection) = {2, 3, 4}

\* C7: the trifecta selection has at most 3 members and holds no horse twice.
C7_SelectionBounded ==
    /\ Len(trifectaSelection) <= 3
    /\ Distinct(trifectaSelection)

C7_Witness ==
    /\ Len(trifectaSelection) = 3
    /\ ev.op = "selectHorse" /\ ev.h = trifectaSelection[3]

\* C8: toggling a horse that is not selected while 3 horses are selected
\* raises the capacity notice and leaves the selection exactly as it was.
C8_CapacityRejected ==
    [][ ( /\ ev'.op = "selectHorse"
          /\ selectedBetType = "trifecta"
          /\ Len(trifectaSelection) = 3
          /\ ~includes(trifectaSelection, ev'.h) ) =>
            /\ notices' = <<CapacityNotice>>
            /\ trifectaSelection' = trifectaSelection ]_vars

C8_Witness ==
    /\ ev.op = "selectHorse"
    /\ notices = <<CapacityNotice>>
    /\ Len(trifectaSelection) = 3
    /\ ~includes(trifectaSelection, ev.h)

\* C9: with bet type trifecta, a toggle removes a selected horse keeping the
\* others in order, and appends an unselected horse while fewer than 3 are
\* selected; toggling a horse twice from fewer than 3 restores the set.
C9_ToggleStep ==
    ( ev'.op = "selectHorse" /\ selectedBetType = "trifecta" ) =>
        /\ includes(trifectaSelection, ev'.h) =>
               trifectaSelection' = filterOut(trifectaSelection, ev'.h)
        /\ (~includes(trifectaSelection, ev'.h) /\ Len(trifectaSelection) < 3) =>
               trifectaSelection' = Append(trifectaSelection, ev'.h)

C9_ToggleTwice ==
    ( selectedBetType = "trifecta" /\ Len(trifectaSelection) < 3 ) =>
        \A h \in Range(currentRace.horses) :
            Range(selectTrifectaHorse(selectTrifectaHorse(Cur, h), h).trifectaSelection)
                = Range(trifectaSelection)

C9_Toggle == [][C9_ToggleStep]_vars /\ []C9_ToggleTwice

C9_Witness ==
    /\ ev.op = "selectHorse" /\ selectedBetType = "trifecta"
    /\ notices = <<>>
    /\ Len(trifectaSelection) = 2
    /\ ~includes(trifectaSelection, ev.h)

\* C10: a mystery fill with bet type trifecta and a race of N horses held
\* leaves exactly 3 pairwise distinct ids when N >= 3 and exactly N when
\* N < 3, all of them ids of horses of the held race, whatever was selected
\* before and whatever the draws.
C10_MysteryFill ==
    ( ev.op = "mystery" /\ selectedBetType = "trifecta" /\ currentRace # NoRace ) =>
        /\ Len(trifectaSelection) = Min(3, Len(currentRace.horses))
        /\ Distinct(trifectaSelection)
        /\ Range(trifectaSelection) \subseteq Range(currentRace.horses)

C10_Witness ==
    /\ ev.op = "mystery" /\ selectedBetType = "trifecta"
    /\ Len(currentRace.horses) >= 3
    /\ trifectaSelection = <<4, 1, 3>>

\* a bet submission that passes every check before send is the step taken
PassesChecks ==
    \/ /\ ev'.op = "selectHorse" /\ selectedBetType # "trifecta"
       /\ ~BettingClosed /\ ~some(currentRaceBets, selectedBetType)
    \/ /\ ev'.op = "placeTrifectaBet"
       /\ Len(trifectaSelection) = 3 /\ ~some(currentRaceBets, "trifecta")

\* C11: a command passed to send while the socket is not OPEN is dropped and
\* the 'connection not ready' notice is raised; nothing is transmitted while
\* the socket is not OPEN, and the handler of a later open transmits nothing
\* but its own login frame (no dropped command is sent later).
C11_DroppedNotQueued ==
    [][ /\ readyState' # "OPEN" => outbox' = <<>>
        /\ (readyState # "OPEN" /\ PassesChecks) =>
               /\ notices' = <<NotReadyNotice>>
               /\ outbox' = <<>>
        /\ (readyState # "OPEN" /\ readyState' = "OPEN") =>
               outbox' \in {<<>>, <<[type |-> "login", username |-> usernameInput]>>} ]_vars

C11_Witness ==
    /\ ev.op = "placeTrifectaBet"
    /\ readyState = "CLOSED"
    /\ notices = <<NotReadyNotice>>
    /\ outbox = <<>>

\* C12: every close leaves exactly one reconnect timer pending, and at every
\* moment there is at most one pending timer and at most one socket that has
\* not closed: a timer is pending exactly while no socket is alive.
C12_OneReconnect ==
    /\ timers \in {0, 1}
    /\ sockets \in {0, 1}
    /\ timers + sockets = 1
    /\ readyState = "CLOSED" <=> timers = 1

C12_Witness ==
    /\ readyState = "CLOSED" /\ timers = 1 /\ sockets = 0
    /\ currentRace # NoRace

\* C13: the client is never closed without a reconnect pending, and whenever
\* the connection is closed a new connection attempt follows, every time.
C13_AlwaysReconnects ==
    /\ [](readyState = "CLOSED" => timers > 0)
    /\ (readyState = "CLOSED") ~> (readyState = "CONNECTING")

C13_Witness ==
    /\ readyState = "CONNECTING" /\ timers = 0 /\ sockets = 1
    /\ racePhase = "racing"

\* C14: each time a connection opens, the open handler sends a login frame
\* carrying the chosen username as the first frame of the connection.
C14_LoginOnOpen ==
    [][ (readyState # "OPEN" /\ readyState' = "OPEN") =>
            /\ outbox' # <<>>
            /\ outbox'[1].type = "login"
            /\ outbox'[1].username # "" ]_vars

\* messages that carry no user field, of every kind the dispatcher knows and
\* of an unknown one
PlainMsgs ==
    {[type |-> "race_state", race |-> race] : race \in Races}
        \cup {[type |-> "phase_update", phase |-> phase, time_remaining |-> RaceTime] :
                  phase \in Phases}
        \cup {[type |-> "odds_update", odds |-> odds, time_remaining |-> RaceTime] :
                  odds \in OddsValues}
        \cup {[type |-> "bet_placed", new_balance |-> b, bet |-> bet] :
                  b \in Balances, bet \in BetMsgs}
        \cup {[type |-> "leaderboard", leaders |-> l, current_user_rank |-> r] :
                  l \in Leaders, r \in {0} \cup Ranks}
        \cup {[type |-> "error", message |-> "Insufficient balance"]}
        \cup {[type |-> type] :
                  type \in {"connection_established", "race_update", "race_results",
                            "unknown"}}

\* C15: a frame that fails to parse changes no session, race, odds, ledger
\* or selection state, sends nothing and leaves the connection open; a
\* frame arriving after it is processed as it would have been without it.
C15_MalformedStep ==
    ev'.op = "malformed" =>
        /\ UNCHANGED <<user, currentRace, currentOdds, currentRaceBets, selectedBetType,
                       selectedHorse, trifectaSelection, selectedButtons, racePhase,
                       trifectaCount, placeTrifectaBtnDisabled>>
        /\ outbox' = <<>>
        /\ readyState' = "OPEN" /\ sockets' = sockets /\ timers' = timers

C15_NextFrameProcessed ==
    \A data \in MalformedFrames, message \in PlainMsgs :
        onmessage(onmessage(Cur, data), stringify(message))
            = onmessage(Cur, stringify(message))

C15_MalformedDiscarded == [][C15_MalformedStep]_vars /\ []C15_NextFrameProcessed

C15_Witness ==
    /\ ev.op = "malformed" /\ readyState = "OPEN"
    /\ currentRaceBets # <<>> /\ Len(trifectaSelection) = 3
    /\ currentRace.phase = "betting"

\* C19: the ledger changes in exactly two ways. Processing bet_placed appends
\* exactly one entry holding the confirmed bet's type, amount and selection;
\* processing a race_state with another race id empties it. Every other
\* step (a place_bet frame sent, any other inbound message, any other user
\* action) leaves it unchanged.
C19_LedgerStep ==
    IF ev'.op = "bet_placed"
    THEN /\ Len(currentRaceBets') = Len(currentRaceBets) + 1
         /\ SubSeq(currentRaceBets', 1, Len(currentRaceBets)) = currentRaceBets
         /\ \E bet \in BetMsgs :
                LET betInfo == currentRaceBets'[Len(currentRaceBets')]
                IN  /\ betInfo.type = bet.type
                    /\ betInfo.amount = bet.amount
                    /\ betInfo.selection = bet.selection
    ELSE IF ev'.op = "race_state" /\ ev'.newRace
    THEN currentRaceBets' = <<>>
    ELSE currentRaceBets' = currentRaceBets

\* the inbound messages that are neither bet_placed nor race_state
C19_OtherMessages ==
    \A message \in PlainMsgs :
        message.type \notin {"bet_placed", "race_state"} =>
            handleMessage(Cur, message).currentRaceBets = currentRaceBets

C19_LedgerWriters == [][C19_LedgerStep]_vars /\ []C19_OtherMessages

C19_Witness ==
    /\ ev.op = "bet_placed"
    /\ Len(currentRaceBets) = 2
    /\ currentRaceBets[2].type = "trifecta"
    /\ currentRaceBets[2].selection = <<1, 2, 3>>

\* C20: a bet_placed confirmation for a place_bet sent while the previous race
\* id was held is not in the ledger once the new race id is held: when the
\* race id changes right after a place_bet frame was sent and the
\* confirmation arrives next, the ledger of the new race stays empty.
C20_NoStaleBets ==
    (ev.op = "bet_placed" /\ ev.newRace /\ ev.sent) => currentRaceBets = <<>>

UserFields == {"username", "balance", "rank"}

\* every message with a user field: each plain message with each payload
\* added, and login_success
UserMsgs ==
    {spread(message, [user |-> userData]) : message \in PlainMsgs, userData \in UserPayloads}
        \cup {[type |-> "login_success", user |-> userData] : userData \in LoginPayloads}

\* C16: a message of none of the known kinds changes no race, odds, ledger
\* or selection state and sends nothing; the user is left as it was or is
\* the merge of the user field the message carries.
C16_UnknownIgnored ==
    [][ ev'.op = "unknown" =>
            /\ UNCHANGED <<currentRace, racePhase, currentOdds, currentRaceBets,
                           selectedBetType, selectedHorse, trifectaSelection,
                           selectedButtons, trifectaCount, placeTrifectaBtnDisabled>>
            /\ outbox' = <<>>
            /\ \/ user' = user
               \/ /\ user # NoUser
                  /\ \E userData \in UserPayloads : user' = spread(user, userData) ]_vars

C16_Witness ==
    /\ ev.op = "unknown"
    /\ user # NoUser /\ "rank" \in DOMAIN user
    /\ currentRaceBets # <<>> /\ trifectaSelection # <<>> /\ currentOdds # NoOdds

\* C17: after a message with a user field is processed, whatever its type
\* and whether or not a session exists, each session field present in the
\* payload has the payload's value and each session field absent from the
\* payload keeps its previous value.
C17_PartialMerge ==
    readyState = "OPEN" =>
        \A message \in UserMsgs :
            LET after == handleMessage(Cur, message).user
            IN  \A f \in UserFields :
                    IF f \in DOMAIN message.user
                    THEN after # NoUser /\ f \in DOMAIN after /\ after[f] = message.user[f]
                    ELSE (user # NoUser /\ f \in DOMAIN user) =>
                             (after # NoUser /\ f \in DOMAIN after /\ after[f] = user[f])

\* the session's balance; -1 while there is no session
BalanceOf(u) == IF u = NoUser THEN -1 ELSE u.balance

\* the balances a message supplies
Supplied(message) ==
    (IF message.type = "bet_placed" THEN {message.new_balance} ELSE {})
        \cup (IF "user" \in DOMAIN message /\ "balance" \in DOMAIN message.user
              THEN {message.user.balance} ELSE {})

\* C18: the session balance changes only while a server message is processed
\* and then equals a value the message supplies (new_balance of bet_placed,
\* balance of a user payload); selecting, toggling, submitting a bet and
\* switching the bet type leave it alone.
C18_BalanceStep ==
    BalanceOf(user') # BalanceOf(user) =>
        ev'.op \in {"login_success", "bet_placed", "unknown", "race_results"}

\* every plain message, login_success, and a user field on bet_placed and on
\* the kinds that touch nothing else
BalanceMsgs ==
    PlainMsgs
        \cup {[type |-> "login_success", user |-> userData] : userData \in LoginPayloads}
        \cup { spread(message, [user |-> userData]) :
                   message \in {m \in PlainMsgs :
                                    m.type \in {"bet_placed", "connection_established",
                                                "race_update", "race_results", "unknown"}},
                   userData \in UserPayloads }

C18_BalanceSupplied ==
    \A message \in BalanceMsgs :
        LET after == BalanceOf(handleMessage(Cur, message).user)
        IN  after # BalanceOf(user) => after \in Supplied(message)

\* the place-trifecta button with three horses selected
C18_TrifectaSubmit ==
    placeTrifectaBet([Cur EXCEPT !.trifectaSelection = <<1, 2, 3>>]).user = user

C18_BalanceFromServer ==
    [][C18_BalanceStep]_vars /\ [](C18_BalanceSupplied /\ C18_TrifectaSubmit)

C18_Witness ==
    /\ ev.op = "selectHorse"
    /\ \E i \in 1 .. Len(outbox) : outbox[i].type = "place_bet"
    /\ user # NoUser /\ user.balance = 10

\* C21: when a winner or place bet is confirmed, the recorded oddsAtBetting
\* is the odds of that bet type for the bet's horse in the snapshot held at
\* that moment, or 2.0 when the snapshot has none; a confirmed trifecta bet
\* records its selection as display text and 'Variable' as odds.
C21_OddsRecorded ==
    [][ ev'.op = "bet_placed" =>
            LET betInfo == currentRaceBets'[Len(currentRaceBets')]
                h == betInfo.selection[1]
            IN  IF betInfo.type = "trifecta"
                THEN betInfo.displayText = betInfo.selection /\ betInfo.oddsAtBetting = 0
                ELSE betInfo.oddsAtBetting =
                         IF h \in DOMAIN currentOdds THEN currentOdds[h][betInfo.type]
                         ELSE 20 ]_vars

\* the bets list was rendered by the latest handler: an odds_update with bets
\* in the ledger, or a race_state of phase racing with bets in the ledger
Rendered ==
    /\ currentRaceBets # <<>>
    /\ \/ ev.op = "odds_update"
       \/ ev.op = "race_state" /\ currentRace.phase = "racing"

\* C22: the potential payout rendered for a ledger bet is amount x the
\* snapshot's odds of the bet's type for the bet's horse when the snapshot
\* knows that horse, and 'TBD' when it does not; for a trifecta bet it is
\* always 'TBD'.
C22_PayoutPreview ==
    Rendered =>
        \A i \in 1 .. Len(currentRaceBets) :
            LET bet == currentRaceBets[i]
                h == bet.selection[1]
            IN  updateActiveBetsDisplay(Cur)[i].potentialPayout =
                    IF bet.type # "trifecta" /\ h \in DOMAIN currentOdds
                    THEN [text |-> "$", n |-> bet.amount * currentOdds[h][bet.type]]
                    ELSE Text("TBD")

\* the tiers from favorite to longshot
TierOrder ==
    <<"odds-favorite", "odds-strong", "odds-moderate", "odds-long", "odds-longshot">>
TierIndex(tier) == CHOOSE i \in 1 .. 5 : TierOrder[i] = tier

\* C23: getOddsTier(o) is favorite for o <= 1.5, strong for 1.5 < o <= 2.5,
\* moderate for 2.5 < o <= 4.0, long for 4.0 < o <= 8.0 and longshot for
\* o > 8.0; it is always one of the five tiers, never moves toward favorite
\* as o grows, and is the class the horses of the track carry for the odds
\* of the held snapshot.
C23_OddsTier ==
    /\ \A o \in 0 .. MaxOdds :
           /\ getOddsTier(o) \in Range(TierOrder)
           /\ getOddsTier(o) = "odds-favorite" <=> o <= 15
           /\ getOddsTier(o) = "odds-strong" <=> (15 < o /\ o <= 25)
           /\ getOddsTier(o) = "odds-moderate" <=> (25 < o /\ o <= 40)
           /\ getOddsTier(o) = "odds-long" <=> (40 < o /\ o <= 80)
           /\ getOddsTier(o) = "odds-longshot" <=> o > 80
           /\ TierIndex(getOddsTier(o)) <= TierIndex(getOddsTier(o + 1))
    /\ \A h \in (DOMAIN horseTiers) \cap (DOMAIN currentOdds) :
           LET o == currentOdds[h].winner
           IN  horseTiers[h] = TierOrder[ IF o <= 15 THEN 1 ELSE IF o <= 25 THEN 2
                                          ELSE IF o <= 40 THEN 3 ELSE IF o <= 80 THEN 4
                                          ELSE 5 ]

C23_Witness ==
    /\ ev.op = "odds_update"
    /\ horseTiers = <<"odds-moderate", "odds-long", "odds-long", "odds-longshot">>

\* C24: after an odds_update with payload O the held snapshot is exactly O:
\* it knows the horses of O and no other, with O's winner and place values.
C24_SnapshotReplaced ==
    /\ ev.op = "odds_update" => currentOdds \in Snapshots
    /\ \A odds \in Snapshots :
           LET after == handleMessage(Cur, [ type |-> "odds_update", odds |-> odds,
                                            time_remaining |-> RaceTime ]).currentOdds
           IN  /\ DOMAIN after = DOMAIN odds
               /\ \A h \in DOMAIN odds :
                      /\ after[h].winner = odds[h].winner
                      /\ after[h].place = odds[h].place

\* the held snapshot knows horse 3 only, after one that knew horse 1
C24_Witness ==
    /\ ev.op = "odds_update"
    /\ DOMAIN currentOdds = {3}
    /\ 1 \in DOMAIN horseTiers /\ horseTiers[1] = "odds-favorite"

\* the least number of whole seconds that is not less than t tenths, t >= 0
Ceiling(t) == CHOOSE n \in 0 .. RaceTime : 10 * n >= t /\ 10 * (n - 1) < t

\* the countdown text of phase and time left t
Countdown(phase, t) ==
    IF phase = "betting" THEN Seconds(Ceiling(IF t > 0 THEN t ELSE 0))
    ELSE IF phase = "racing" THEN Text("Racing...")
    ELSE IF t > 0 THEN Seconds(Ceiling(t))
    ELSE Text("Results")

\* C25: updatePhase(phase, t) derives the countdown text as the ceiling of
\* max(0, t) seconds for betting, 'Racing...' for racing whatever t is, and
\* for results the ceiling of t seconds when t > 0 and 'Results' when
\* t <= 0; so it is after every phase_update and every race_state.
C25_Countdown ==
    /\ ev.op = "phase_update" => timeRemaining = Countdown(racePhase, ev.h)
    /\ ev.op = "race_state" =>
           timeRemaining = Countdown(currentRace.phase, currentRace.time_remaining)
    /\ \A phase \in Phases, t \in Times :
           updatePhase(Cur, phase, t).timeRemaining = Countdown(phase, t)

C25_Witness ==
    /\ ev.op = "phase_update" /\ ev.h = -10
    /\ racePhase = "results"
    /\ timeRemaining = Text("Results")

\* C26: on a leaderboard message the rank shown and stored is, when the
\* user is not among the leaders, the message's current_user_rank if it is
\* supplied, otherwise the last stored rank, otherwise the placeholder
\* (nothing stored); when the user is among the leaders it is that row's
\* rank, or the row's 1-based position when the row has none.
C26_RankResolution ==
    /\ (ev.op = "leaderboard" /\ user # NoUser) => userRank = rankOf(user)
    /\ user # NoUser =>
           \A leaders \in Leaders, currentUserRank \in {0} \cup Ranks :
               LET after == handleMessage(Cur, [ type |-> "leaderboard", leaders |-> leaders,
                                                current_user_rank |-> currentUserRank ])
                   rows == {i \in 1 .. Len(leaders) : leaders[i].username = user.username}
                   row == CHOOSE i \in rows : TRUE
                   rank == IF rows # {}
                           THEN IF leaders[row].rank # 0 THEN leaders[row].rank ELSE row
                           ELSE IF currentUserRank # 0 THEN currentUserRank
                           ELSE IF "rank" \in DOMAIN user THEN user.rank
                           ELSE 0
               IN  /\ after.userRank = rank
                   /\ rank # 0 => after.user.rank = rank
                   /\ rank = 0 => "rank" \notin DOMAIN after.user

\* the placeholder is shown to a user without rank
C26_Witness ==
    /\ ev.op = "leaderboard"
    /\ user # NoUser /\ "rank" \notin DOMAIN user
    /\ userRank = 0

\* C27: for page hostname 'localhost' or '127.0.0.1' the socket's URL is
\* ws://<hostname>:8765 whatever the page protocol; for every other hostname
\* it is <scheme>//<hostname>/ws, with scheme wss: when the page protocol is
\* https: and ws: otherwise. So it is for the first connection and for
\* every reconnect.
C27_Endpoint ==
    /\ location.hostname \in {"localhost", "127.0.0.1"} =>
           wsUrl = [scheme |-> "ws:", host |-> location.hostname, port |-> "8765", path |-> ""]
    /\ location.hostname \notin {"localhost", "127.0.0.1"} =>
           /\ wsUrl.host = location.hostname /\ wsUrl.port = "" /\ wsUrl.path = "/ws"
           /\ location.protocol = "https:" => wsUrl.scheme = "wss:"
           /\ location.protocol # "https:" => wsUrl.scheme = "ws:"

\* a reconnect of a page served over https by a loopback host
C27_Witness ==
    /\ location = [protocol |-> "https:", hostname |-> "127.0.0.1"]
    /\ readyState = "CONNECTING" /\ racePhase = "results"
    /\ wsUrl.scheme = "ws:" /\ wsUrl.port = "8765"

\* C28: after selectBetType(t), for any t and from any state, re-selecting
\* the active type included, the staged single horse is null and the
\* trifecta selection is empty.
C28_BetTypeClears ==
    /\ ev.op = "selectBetType" => (selectedHorse = 0 /\ trifectaSelection = <<>>)
    /\ \A type \in BetTypes :
           /\ selectBetType(Cur, type).selectedBetType = type
           /\ selectBetType(Cur, type).selectedHorse = 0
           /\ selectBetType(Cur, type).trifectaSelection = <<>>

C28_Witness ==
    /\ ev.op = "selectBetType" /\ ev.hadSel
    /\ selectedBetType = "trifecta"
    /\ selectedHorse = 0 /\ trifectaSelection = <<>>

\* C29: when a phase_update or race_state carrying phase racing or results
\* is processed while the phase was betting, the trifecta selection is
\* empty afterwards.
C29_LeavingBettingClears ==
    [][ ( /\ racePhase = "betting"
          /\ ev'.op \in {"phase_update", "race_state"}
          /\ racePhase' \in {"racing", "results"} ) =>
            trifectaSelection' = <<>> ]_vars

\* C30 as stated: after a phase_update or race_state carrying phase betting
\* the trifecta selection is empty, no horse button is highlighted and no
\* single horse is staged.
C30_Original ==
    (ev.op \in {"phase_update", "race_state"} /\ racePhase = "betting") =>
        /\ trifectaSelection = <<>>
        /\ selectedButtons = {}
        /\ selectedHorse = 0

\* C30 (amended): after a phase_update or race_state carrying phase betting
\* the trifecta selection is empty and no horse button is highlighted; the
\* staged single horse is left as it was.
C30_EnteringBettingClears ==
    /\ (ev.op \in {"phase_update", "race_state"} /\ racePhase = "betting") =>
           /\ trifectaSelection = <<>>
           /\ selectedButtons = {}
           /\ trifectaCount = 0 /\ placeTrifectaBtnDisabled
    /\ \A t \in Times :
           updatePhase(Cur, "betting", t).selectedHorse = selectedHorse

\* betting is entered with a horse highlighted and staged: the highlight is
\* gone, the staged horse is kept
C30_Witness ==
    /\ ev.op = "phase_update" /\ ev.hadSel
    /\ racePhase = "betting"
    /\ selectedBetType = "winner" /\ selectedHorse # 0
    /\ selectedButtons = {}

\* C31: with bet type winner or place, the connection open, the held race
\* in phase betting and no bet of that type in the ledger, a click on a
\* horse of the race sends exactly one place_bet frame with that bet type,
\* amount 1 and the clicked horse alone as selection, whatever horse was
\* staged before, raises no notice and leaves no single horse staged.
C31_SingleBetClick ==
    [][ ( /\ ev'.op = "selectHorse"
          /\ selectedBetType \in {"winner", "place"}
          /\ readyState = "OPEN"
          /\ currentRace # NoRace /\ currentRace.phase = "betting"
          /\ ~some(currentRaceBets, selectedBetType) ) =>
            /\ outbox' = << [ type |-> "place_bet", bet_type |-> selectedBetType,
                              amount |-> 1, selection |-> <<ev'.h>> ] >>
            /\ notices' = <<>>
            /\ selectedHorse' = 0
            /\ selectedButtons' = {} ]_vars

\* a place bet on horse 2 went out while a winner bet was in the ledger
C31_Witness ==
    /\ ev.op = "selectHorse" /\ ev.h = 2
    /\ readyState = "OPEN" /\ currentRace.phase = "betting"
    /\ selectedBetType = "place" /\ some(currentRaceBets, "winner")
    /\ outbox = << [ type |-> "place_bet", bet_type |-> "place", amount |-> 1,
                     selection |-> <<2>> ] >>
    /\ selectedHorse = 0

\* C32: whenever the phase becomes racing, by phase_update or by race_state,
\* while the ledger holds at least one bet, the active bets summary is
\* visible afterwards; it is hidden whenever the ledger is empty.
C32_SummaryVisible ==
    /\ [][ ( /\ currentRace # NoRace /\ currentRaceBets # <<>>
              /\ racePhase # "racing" /\ racePhase' = "racing"
              /\ currentRaceBets' # <<>> ) =>
                activeBets' = "visible" ]_vars
    /\ [](currentRaceBets = <<>> => activeBets \in {"hidden", "page"})

\* C33: a connection close, and every reconnect attempt and reopening after
\* it, changes none of the held race, the bet ledger, the odds snapshot,
\* the selected bet type and the trifecta selection; a race_state, after a
\* reconnect as at any time, empties the ledger only if it carries a race
\* id different from the held one and leaves it as it was otherwise.
C33_ReconnectKeeps ==
    /\ [][ (readyState' # readyState \/ timers' # timers \/ sockets' # sockets) =>
               UNCHANGED <<currentRace, currentRaceBets, currentOdds, selectedBetType,
                           trifectaSelection>> ]_vars
    /\ [](\A race \in Races :
              LET s == updateRaceState(Cur, race)
              IN  \/ s.currentRaceBets = currentRaceBets
                  \/ /\ s.currentRaceBets = <<>>
                     /\ currentRace = NoRace \/ race.id # currentRace.id)

\* the connection was lost and a new socket is connecting, with a race,
\* bets, odds and a trifecta selection in hand
C33_Witness ==
    /\ readyState = "CONNECTING" /\ timers = 0
    /\ currentRace # NoRace /\ currentRaceBets # <<>> /\ currentOdds # NoOdds
    /\ selectedBetType = "trifecta" /\ trifectaSelection # <<>>

\* C34: between two race id changes at most one place_bet frame goes out per
\* bet type, also when the user clicks again before the bet_placed of the
\* first frame has arrived. Stated for the closest case: two handlers in a
\* row, with no message between them, never both send a place_bet frame of
\* the same bet type.
C34_OneFramePerType ==
    [][ ~ \E i \in 1 .. Len(outbox), j \in 1 .. Len(outbox') :
            /\ outbox[i].type = "place_bet"
            /\ outbox'[j].type = "place_bet"
            /\ outbox'[j].bet_type = outbox[i].bet_type ]_vars

\* C35: a phase_update, or a race_state of the held race id, that carries
\* phase betting while the phase is betting already leaves the trifecta
\* selection as it was.
C35_RefreshKeepsSelection ==
    [][ ( /\ ev'.op \in {"phase_update", "race_state"}
          /\ currentRace # NoRace /\ currentRace.phase = "betting"
          /\ racePhase = "betting" /\ racePhase' = "betting"
          /\ currentRace'.id = currentRace.id ) =>
            trifectaSelection' = trifectaSelection ]_vars

\* C36: a trifecta submission that sends no frame (the selection does not
\* hold 3 horses, a trifecta bet is in the ledger, or the connection is not
\* open) leaves the trifecta selection as it was; the selection is cleared
\* only when the place_bet frame was sent.
C36_UnsentKeepsSelection ==
    [][ ( /\ ev'.op = "placeTrifectaBet"
          /\ ~ \E i \in 1 .. Len(outbox') : outbox'[i].type = "place_bet" ) =>
            trifectaSelection' = trifectaSelection ]_vars

\* C37: in every reachable state the place-trifecta button is enabled
\* exactly when the trifecta selection holds 3 horses, and the count shown
\* in 'k/3 horses selected' is the size of the selection.
C37_TrifectaDisplayFresh ==
    /\ placeTrifectaBtnDisabled <=> (Len(trifectaSelection) # 3)
    /\ trifectaCount = Len(trifectaSelection)

\* one of three selected horses was just taken out again: the count shows 2
\* and the button is disabled
C37_Witness ==
    /\ ev.op = "selectHorse" /\ selectedBetType = "trifecta" /\ notices = <<>>
    /\ Len(trifectaSelection) = 2 /\ ~includes(trifectaSelection, ev.h)
    /\ trifectaCount = 2 /\ placeTrifectaBtnDisabled

\* C38: in every reachable state the trifecta selection is empty whenever
\* the selected bet type is winner or place: a toggle and a mystery fill
\* add horses only while the bet type is trifecta, and every bet type
\* switch empties the selection.
C38_SingleTypeNoTrifecta ==
    /\ selectedBetType \in {"winner", "place"} => trifectaSelection = <<>>
    /\ selectedBetType # "trifecta" =>
           /\ \A horseId \in Range(currentRace.horses) :
                  selectTrifectaHorse(Cur, horseId).trifectaSelection = trifectaSelection
           /\ \A selectedHorses \in mysteryDraws(currentRace.horses, <<>>, 0) :
                  selectMysteryTrifecta(Cur, selectedHorses).trifectaSelection
                      = trifectaSelection
    /\ \A type \in BetTypes : selectBetType(Cur, type).trifectaSelection = <<>>

\* the mystery button was pressed while the bet type was place, with a
\* field of four horses: nothing was selected
C38_Witness ==
    /\ ev.op = "mystery" /\ selectedBetType = "place"
    /\ currentRace # NoRace /\ Len(currentRace.horses) > 3
    /\ currentRace.phase = "betting"
    /\ trifectaSelection = <<>> /\ selectedButtons = {}

\* C39: the held odds snapshot changes only when an odds_update is
\* processed: a race_state, also one that carries odds or a new race id and
\* resets the ledger, leaves it unchanged, so the odds recorded for a bet
\* confirmed right after the race_state of a new race are those of the
\* snapshot held before that race.
C39_OnlyOddsUpdate ==
    /\ [][currentOdds' # currentOdds => ev'.op = "odds_update"]_vars
    /\ [](\A race \in Races, odds \in Snapshots :
              updateRaceState(Cur, spread(race, [odds |-> odds])).currentOdds = currentOdds)
    /\ [][ (ev.op = "race_state" /\ ev.newRace /\ ev'.op = "bet_placed") =>
               LET betInfo == currentRaceBets'[Len(currentRaceBets')]
                   h == betInfo.selection[1]
               IN  (betInfo.type # "trifecta" /\ h \in DOMAIN currentOdds
                        /\ includes(currentRace.horses, h)) =>
                       betInfo.oddsAtBetting = currentOdds[h][betInfo.type] ]_vars

\* a winner bet confirmed right after the race_state of a new race, one of
\* four horses, carries odds of the snapshot of two horses received before
\* that race
C39_Witness ==
    /\ ev.op = "bet_placed" /\ ev.newRace
    /\ currentRace.id = 2 /\ DOMAIN currentOdds = {1, 2}
    /\ Len(currentRaceBets) = 1
    /\ currentRaceBets[1].type = "winner"
    /\ 1 \in DOMAIN currentOdds
    /\ currentRaceBets[1].oddsAtBetting = currentOdds[1].winner
    /\ currentOdds[1].winner # 20

\* C40: in every reachable state the countdown text is the one of the phase
\* received last: while that phase is racing it is the in-progress text and
\* never a number of seconds, whatever messages, odds_update among them,
\* were processed since.
C40_RacingShowsNoCountdown ==
    racePhase = "racing" => timeRemaining = Text("Racing...")

====
